---------------------------- MODULE Spec2Model ----------------------------
(***************************************************************************)
(* nordpool (src/src/lib.rs): get_prices fetches the day-ahead hourly      *)
(* prices of a bidding area, decodes the JSON body, and prices every row   *)
(* with TotalPrice::compute.                                               *)
(*                                                                         *)
(* Texts (a StartTime, a column Value) are sequences of one-character      *)
(* strings, so that parsing is computed character by character.  A JSON    *)
(* object is a record whose DOMAIN is the set of keys the object holds.    *)
(* A decimal amount is [mant, scale], the number mant / 10^scale, as in    *)
(* rust_decimal.                                                           *)
(*                                                                         *)
(* The libraries lib.rs calls are modelled by what they do on the inputs   *)
(* drawn here: reqwest (a response of any status is a response), serde     *)
(* (a missing key fails the decoding, an unknown key is ignored), chrono   *)
(* and chrono-tz (the format items, the EU summer-time rule), rusty_money  *)
(* and rust_decimal (the SEK locale, exact products and quotients).        *)
(***************************************************************************)
EXTENDS Integers, Sequences, FiniteSets

VARIABLES
    pc,        \* where the call of get_prices stands
    area,      \* get_prices' argument area
    url,       \* the request built at lib.rs:46-49
    resp,      \* the HTTP response reqwest::get yields (status, body)
    response,  \* the decoded Response (lib.rs:21-43)
    result,    \* what get_prices returns
    tp         \* the TotalPrice a direct call of TotalPrice::compute builds

vars == <<pc, area, url, resp, response, result, tp>>

(***************************************************************************)
(* Bounds of the model.                                                    *)
(***************************************************************************)
MaxRows == 2        \* rows of a response's data.Rows
MaxCols == 2        \* columns of a row in the column-lookup specification

(***************************************************************************)
(* Characters and numbers.                                                 *)
(***************************************************************************)
DigitChars == <<"0", "1", "2", "3", "4", "5", "6", "7", "8", "9">>

IsDigit(c) == \E i \in 1..10 : DigitChars[i] = c

DigitVal(c) == (CHOOSE i \in 1..10 : DigitChars[i] = c) - 1

RECURSIVE Pow10(_)
Pow10(n) == IF n = 0 THEN 1 ELSE 10 * Pow10(n - 1)

\* i32::MAX, the range of the i32::from_str checks inside Money::from_str
I32Max == 2147483647

\* The digits text[from..Len(text)] accumulated the way i32::from_str does
\* (checked_mul by 10, checked_add of the digit); -1 on a non-digit or on
\* overflow of the i32 range.
RECURSIVE I32Digits(_, _, _)
I32Digits(text, from, acc) ==
    IF from > Len(text) THEN acc
    ELSE IF ~IsDigit(text[from]) THEN -1
    ELSE LET d == DigitVal(text[from])
         IN  IF acc > (I32Max - d) \div 10 THEN -1
             ELSE I32Digits(text, from + 1, acc * 10 + d)

HasSign(text) == Len(text) > 0 /\ text[1] \in {"-", "+"}

\* i32::from_str(text).is_ok(): an optional sign, then at least one digit.
\* (The one value of the range this leaves out is i32::MIN.)
IsI32(text) ==
    LET from == IF HasSign(text) THEN 2 ELSE 1
    IN  /\ Len(text) >= from
        /\ I32Digits(text, from, 0) >= 0

\* str::split(sep): the pieces of text between the occurrences of sep
RECURSIVE Split(_, _)
Split(text, sep) ==
    IF \A i \in 1..Len(text) : text[i] # sep THEN <<text>>
    ELSE LET i == CHOOSE j \in 1..Len(text) :
                     text[j] = sep /\ \A k \in 1..(j - 1) : text[k] # sep
         IN  <<SubSeq(text, 1, i - 1)>> \o Split(SubSeq(text, i + 1, Len(text)), sep)

\* str::replace(sep, ""): text without the occurrences of sep
Remove(text, sep) == SelectSeq(text, LAMBDA c : c # sep)

(***************************************************************************)
(* Decimal amounts (rust_decimal::Decimal inside rusty_money::Money).      *)
(***************************************************************************)
Dec(m, s) == [mant |-> m, scale |-> s]

\* the mantissa of d at the scale s >= d.scale
AtScale(d, s) == d.mant * Pow10(s - d.scale)

MaxOf(a, b) == IF a >= b THEN a ELSE b

\* Decimal's equality and order are numeric: 1.0 = 1.00
DecEq(a, b) ==
    LET s == MaxOf(a.scale, b.scale) IN AtScale(a, s) = AtScale(b, s)

DecMul(a, b) == Dec(a.mant * b.mant, a.scale + b.scale)

DecSign(d) == IF d.mant > 0 THEN 1 ELSE IF d.mant < 0 THEN -1 ELSE 0

\* d rounded to two decimals, halves to the even neighbour or away from zero
RoundToMinor(d, halfEven) ==
    IF d.scale <= 2 THEN d
    ELSE LET unit == Pow10(d.scale - 2)
             mag  == IF d.mant < 0 THEN -d.mant ELSE d.mant
             q    == mag \div unit
             rem  == mag % unit
             up   == \/ 2 * rem > unit
                     \/ (2 * rem = unit /\ (~halfEven \/ q % 2 = 1))
             m    == IF up THEN q + 1 ELSE q
         IN  Dec(IF d.mant < 0 THEN -m ELSE m, 2)

\* Decimal::from_str of the digits of whole, a period and the text frac.
\* whole has passed i32::from_str (an optional sign, then digits); a frac
\* that is not all digits makes Decimal::from_str fail.
DecimalFromStr(whole, frac) ==
    LET neg   == Len(whole) > 0 /\ whole[1] = "-"
        from  == IF HasSign(whole) THEN 2 ELSE 1
        w     == I32Digits(whole, from, 0)
        f     == I32Digits(frac, 1, 0)
        m     == w * Pow10(Len(frac)) + f
    IN  IF f < 0 THEN [ok |-> FALSE]
        ELSE [ok |-> TRUE, value |-> Dec(IF neg THEN -m ELSE m, Len(frac))]

\* The separators of the SEK locale in rusty_money (Locale::EnBy): digit
\* groups are separated by a space, the decimals by a comma.
DigitSeparator == " "
ExponentSeparator == ","
\* SEK's exponent: two decimals
SekExponent == 2

\* Money::from_str(value, SEK) (lib.rs:61): "Ok" with the amount, "Err"
\* where from_str returns an error, and "Panic" where its inner
\* Decimal::from_str(..).unwrap() fails after both i32 checks have passed
\* (a fraction that carries a sign).
MoneyFromStr(value) ==
    LET parts == Split(value, ExponentSeparator)
        whole == Remove(parts[1], DigitSeparator)
    IN  IF ~IsI32(whole) THEN [kind |-> "Err"]
        ELSE IF Len(parts) = 1
             THEN [kind |-> "Ok",
                   amount |-> DecimalFromStr(whole,
                                  [i \in 1..SekExponent |-> "0"]).value]
        ELSE IF Len(parts) = 2
             THEN IF ~IsI32(parts[2]) THEN [kind |-> "Err"]
                  ELSE LET d == DecimalFromStr(whole, parts[2])
                       IN  IF d.ok THEN [kind |-> "Ok", amount |-> d.value]
                           ELSE [kind |-> "Panic"]
        ELSE [kind |-> "Err"]

(***************************************************************************)
(* Dates and times (chrono::NaiveDateTime, chrono_tz::Europe::Stockholm).  *)
(***************************************************************************)
Naive(y, mo, d, h, mi, s) ==
    [year |-> y, month |-> mo, day |-> d, hour |-> h, minute |-> mi, second |-> s]

IsLeap(y) == (y % 4 = 0 /\ y % 100 # 0) \/ y % 400 = 0

DaysInMonth(y, mo) ==
    IF mo = 2 THEN (IF IsLeap(y) THEN 29 ELSE 28)
    ELSE IF mo \in {4, 6, 9, 11} THEN 30 ELSE 31

\* days from 1970-01-01 to the civil date y-mo-d (y >= 0)
DaysFromCivil(y, mo, d) ==
    LET yy  == IF mo <= 2 THEN y - 1 ELSE y
        era == yy \div 400
        yoe == yy - era * 400
        mp  == IF mo > 2 THEN mo - 3 ELSE mo + 9
        doy == (153 * mp + 2) \div 5 + d - 1
        doe == yoe * 365 + yoe \div 4 - yoe \div 100 + doy
    IN  era * 146097 + doe - 719468

WeekdayNames == <<"Thu", "Fri", "Sat", "Sun", "Mon", "Tue", "Wed">>

\* Datelike::weekday of a date (1970-01-01 was a Thursday)
Weekday(y, mo, d) == WeekdayNames[(DaysFromCivil(y, mo, d) % 7) + 1]

\* the last Sunday of a month: its last day, less the days that day is
\* past a Sunday (day 3 from 1970-01-01 was a Sunday)
LastSunday(y, mo) ==
    LET last == DaysInMonth(y, mo)
    IN  last - ((DaysFromCivil(y, mo, last) - 3) % 7)

\* hours from 1970-01-01T00:00 to the start of the hour h of the date
HourIndex(y, mo, d, h) == DaysFromCivil(y, mo, d) * 24 + h

\* Europe/Stockholm in the tz database (the EU rule, in force since 1996):
\* summer time (UTC+2) from 01:00 UTC of the last Sunday of March to
\* 01:00 UTC of the last Sunday of October, UTC+1 otherwise.  The argument
\* is an hour of UTC, of the year y.
StockholmOffsetAtUtc(y, utcHour) ==
    IF /\ utcHour >= HourIndex(y, 3, LastSunday(y, 3), 1)
       /\ utcHour <  HourIndex(y, 10, LastSunday(y, 10), 1)
    THEN 2 ELSE 1

\* NaiveDateTime::and_local_timezone(Stockholm): the offsets under which
\* the wall-clock time n is a local time of the zone.  None is the empty
\* set, Single a set of one offset, Ambiguous a set of two.
and_local_timezone(n) ==
    LET local == HourIndex(n.year, n.month, n.day, n.hour)
    IN  {o \in {1, 2} : StockholmOffsetAtUtc(n.year, local - o) = o}

\* Variant of single: LocalResult::earliest(), which answers the earlier
\* instant (the larger offset) of an ambiguous local time
earliest(n, offsets) ==
    IF offsets # {}
    THEN [some |-> TRUE,
          value |-> [naive |-> n, offset |-> CHOOSE o \in offsets : \A q \in offsets : q <= o]]
    ELSE [some |-> FALSE]

\* LocalResult::single(): Some(the zoned time) for Single, None otherwise
single(n, offsets) ==
    IF Cardinality(offsets) = 1
    THEN [some |-> TRUE, value |-> [naive |-> n, offset |-> CHOOSE o \in offsets : TRUE]]
    ELSE [some |-> FALSE]

\* NaiveDateTime::parse_from_str's scan of a numeric field: the count of
\* digits at text[pos..], at most width of them
RECURSIVE DigitRun(_, _, _)
DigitRun(text, pos, width) ==
    IF width = 0 \/ pos > Len(text) \/ ~IsDigit(text[pos]) THEN 0
    ELSE 1 + DigitRun(text, pos + 1, width - 1)

\* One item of the format "%Y-%m-%dT%H:%M:%S" applied at st.pos: a numeric
\* field of at most width digits and at least one (width > 0), or the
\* literal character lit (width = 0).
ScanItem(text, st, width, lit) ==
    IF ~st.ok THEN st
    ELSE IF width = 0
    THEN IF st.pos <= Len(text) /\ text[st.pos] = lit
         THEN [st EXCEPT !.pos = @ + 1]
         ELSE [st EXCEPT !.ok = FALSE]
    ELSE LET n == DigitRun(text, st.pos, width)
         IN  IF n = 0 THEN [st EXCEPT !.ok = FALSE]
             ELSE [st EXCEPT !.pos = @ + n,
                             !.fields = Append(@, I32Digits(
                                 SubSeq(text, st.pos, st.pos + n - 1), 1, 0))]

\* the items of "%Y-%m-%dT%H:%M:%S": <<width, literal>>
PartialIso8601 ==
    << <<4, "">>, <<0, "-">>, <<2, "">>, <<0, "-">>, <<2, "">>, <<0, "T">>,
       <<2, "">>, <<0, ":">>, <<2, "">>, <<0, ":">>, <<2, "">> >>

RECURSIVE ScanItems(_, _, _)
ScanItems(text, st, k) ==
    IF k > Len(PartialIso8601) THEN st
    ELSE ScanItems(text,
                   ScanItem(text, st, PartialIso8601[k][1], PartialIso8601[k][2]),
                   k + 1)

\* NaiveDateTime::parse_from_str(text, "%Y-%m-%dT%H:%M:%S") (lib.rs:16): an
\* error when an item does not match, when text is left over, or when a
\* field is out of range.
ParsePartialIso8601(text) ==
    LET st == ScanItems(text, [ok |-> TRUE, pos |-> 1, fields |-> <<>>], 1)
        f  == st.fields
    IN  IF ~st.ok \/ st.pos # Len(text) + 1 THEN [ok |-> FALSE]
        ELSE IF /\ f[2] \in 1..12
                /\ f[3] \in 1..DaysInMonth(f[1], f[2])
                /\ f[4] \in 0..23
                /\ f[5] \in 0..59
                /\ f[6] \in 0..60   \* 60 is read as a leap second of second 59
             THEN [ok |-> TRUE,
                   value |-> Naive(f[1], f[2], f[3], f[4], f[5],
                                   IF f[6] = 60 THEN 59 ELSE f[6])]
             ELSE [ok |-> FALSE]

\* Variant of deserialize_partial_iso8601: a text that does not parse is
\* read as the default time instead of failing the decoding
DeserializeOrDefault(text) ==
    LET t == ParsePartialIso8601(text)
    IN  IF t.ok THEN t ELSE [ok |-> TRUE, value |-> Naive(1970, 1, 1, 0, 0, 0)]

\* deserialize_partial_iso8601 (lib.rs:12-18): the string parsed, the
\* parse error mapped to the decoder's error
deserialize_partial_iso8601(text) == ParsePartialIso8601(text)

(***************************************************************************)
(* Decoding the body (serde_json into Response, lib.rs:20-43).             *)
(***************************************************************************)
HasKeys(obj, keys) == keys \subseteq DOMAIN obj

\* Column (lib.rs:38-43): the keys Name and Value
DecodeColumn(c) ==
    IF HasKeys(c, {"Name", "Value"})
    THEN [ok |-> TRUE, value |-> [name |-> c.Name, value |-> c.Value]]
    ELSE [ok |-> FALSE]

\* Row (lib.rs:30-37): the keys StartTime, Columns and IsExtraRow, the
\* StartTime through deserialize_partial_iso8601
DecodeRow(r) ==
    IF ~HasKeys(r, {"StartTime", "Columns", "IsExtraRow"}) THEN [ok |-> FALSE]
    ELSE LET t    == deserialize_partial_iso8601(r.StartTime)
             cols == [j \in 1..Len(r.Columns) |-> DecodeColumn(r.Columns[j])]
         IN  IF t.ok /\ \A j \in 1..Len(cols) : cols[j].ok
             THEN [ok |-> TRUE,
                   value |-> [start_time   |-> t.value,
                              columns      |-> [j \in 1..Len(cols) |-> cols[j].value],
                              is_extra_row |-> r.IsExtraRow]]
             ELSE [ok |-> FALSE]

\* Response::json::<Response>() (lib.rs:50): the body must be JSON, hold
\* the key data, data the key Rows, and every row must decode.
DecodeResponse(body) ==
    IF ~body.json THEN [ok |-> FALSE]
    ELSE IF ~HasKeys(body.doc, {"data"}) THEN [ok |-> FALSE]
    ELSE IF ~HasKeys(body.doc.data, {"Rows"}) THEN [ok |-> FALSE]
    ELSE LET rows == [i \in 1..Len(body.doc.data.Rows) |->
                          DecodeRow(body.doc.data.Rows[i])]
         IN  IF \A i \in 1..Len(rows) : rows[i].ok
             THEN [ok |-> TRUE,
                   value |-> [data |-> [rows |-> [i \in 1..Len(rows) |-> rows[i].value]]]]
             ELSE [ok |-> FALSE]

(***************************************************************************)
(* Pricing (lib.rs:52-69 and TotalPrice::compute, lib.rs:81-94).           *)
(***************************************************************************)
\* Money::from_minor(n, SEK): n hundredths of a krona
from_minor(n) == Dec(n, SekExponent)

\* dec!(0.25), the VAT rate (lib.rs:85)
VatRateMant == 25
VatRateScale == 2
\* the fees and the tax in minor units (lib.rs:88, 90, 92)
LowFeeMinor == 12
HighFeeMinor == 70
TaxMinor == 45
\* the hours of the low fee on every day: 0..=5 and 22.. (lib.rs:87)
LastNightHour == 5
FirstEveningHour == 22

\* Variant of Vat: the product rounded to the minor unit
VatRounded(energy) ==
    RoundToMinor(DecMul(energy, Dec(VatRateMant, VatRateScale)), TRUE)

\* Variant of Vat: the rate applied to the magnitude of the energy price
VatOfMagnitude(energy) ==
    DecMul(Dec(IF energy.mant < 0 THEN -energy.mant ELSE energy.mant, energy.scale),
           Dec(VatRateMant, VatRateScale))

\* energy * dec!(0.25) (lib.rs:85): Money's Mul<Decimal> multiplies the
\* amounts and rounds nothing
Vat(energy) == DecMul(energy, Dec(VatRateMant, VatRateScale))

\* Variant of Fee: the evening's low fee starts one hour late
FeeLateEvening(weekday, hour) ==
    IF \/ hour \in 0..LastNightHour
       \/ hour > FirstEveningHour
       \/ weekday = "Sat"
       \/ weekday = "Sun"
    THEN from_minor(LowFeeMinor)
    ELSE from_minor(HighFeeMinor)

\* the match on (weekday, hour) (lib.rs:86-91)
Fee(weekday, hour) ==
    IF \/ hour \in 0..LastNightHour
       \/ hour >= FirstEveningHour
       \/ weekday = "Sat"
       \/ weekday = "Sun"
    THEN from_minor(LowFeeMinor)
    ELSE from_minor(HighFeeMinor)

\* DateTime<Tz>::weekday() and .time().hour(): those of the local time
ZonedWeekday(z) == Weekday(z.naive.year, z.naive.month, z.naive.day)
ZonedHour(z) == z.naive.hour

\* TotalPrice::compute (lib.rs:81-94)
compute(start_time, energy) ==
    [start_time |-> start_time,
     energy     |-> energy,
     vat        |-> Vat(energy),
     fee        |-> Fee(ZonedWeekday(start_time), ZonedHour(start_time)),
     tax        |-> from_minor(TaxMinor)]

\* the divisor of price / 1000 (lib.rs:66)
PerMWh == 1000

\* price / 1000 (lib.rs:66): Money's Div<i32> divides the amount, exactly
\* here: three more decimals
DivPerMWh(price) ==
    Dec(price.mant, price.scale + (CHOOSE k \in 0..9 : Pow10(k) = PerMWh))

\* Variant of FindColumn: the last column of that name
FindLastColumn(columns, a) ==
    IF \E j \in 1..Len(columns) : columns[j].name = a
    THEN CHOOSE j \in 1..Len(columns) :
             /\ columns[j].name = a
             /\ \A k \in (j + 1)..Len(columns) : columns[k].name # a
    ELSE 0

\* the area codes in capitals
UpperCase(name) == IF name = "se3" THEN "SE3" ELSE IF name = "se4" THEN "SE4" ELSE name

\* Variant of FindColumn: the first column of that name, letter case
\* ignored
FindColumnAnyCase(columns, a) ==
    IF \E j \in 1..Len(columns) : UpperCase(columns[j].name) = UpperCase(a)
    THEN CHOOSE j \in 1..Len(columns) :
             /\ UpperCase(columns[j].name) = UpperCase(a)
             /\ \A k \in 1..(j - 1) : UpperCase(columns[k].name) # UpperCase(a)
    ELSE 0

\* r.columns.iter().find(|c| c.name == area) (lib.rs:58-60): the index of
\* the first column of that name, 0 when there is none
FindColumn(columns, a) ==
    IF \E j \in 1..Len(columns) : columns[j].name = a
    THEN CHOOSE j \in 1..Len(columns) :
             /\ columns[j].name = a
             /\ \A k \in 1..(j - 1) : columns[k].name # a
    ELSE 0

\* Variant of KeepRow: no filter
KeepEveryRow(r) == TRUE

\* .filter(|r| !r.is_extra_row) (lib.rs:56)
KeepRow(r) == ~r.is_extra_row

\* .single() of the row's local time (lib.rs:63-65)
RowLocalTime(r) == single(r.start_time, and_local_timezone(r.start_time))

\* the closure of flat_map (lib.rs:57-68): "Some" with the priced hour,
\* "None" when the row yields nothing, "Panic" when from_str panics
PriceRow(r, a) ==
    LET j == FindColumn(r.columns, a)
    IN  IF j = 0 THEN [kind |-> "None"]
        ELSE LET price == MoneyFromStr(r.columns[j].value)
                 local == RowLocalTime(r)
             IN  IF price.kind = "Panic" THEN [kind |-> "Panic"]
                 ELSE IF price.kind = "Err" \/ ~local.some THEN [kind |-> "None"]
                 ELSE [kind |-> "Some",
                       value |-> compute(local.value, DivPerMWh(price.amount))]

\* Variant of PriceRows: every priced hour is put in front of the list
RECURSIVE PriceRowsNewestFirst(_, _, _)
PriceRowsNewestFirst(rows, a, i) ==
    IF i > Len(rows) THEN [kind |-> "Ok", prices |-> <<>>]
    ELSE IF ~KeepRow(rows[i]) THEN PriceRowsNewestFirst(rows, a, i + 1)
    ELSE LET p == PriceRow(rows[i], a)
         IN  IF p.kind = "Panic" THEN [kind |-> "Panic"]
             ELSE LET rest == PriceRowsNewestFirst(rows, a, i + 1)
                  IN  IF rest.kind = "Panic" THEN rest
                      ELSE IF p.kind = "None" THEN rest
                      ELSE [kind |-> "Ok", prices |-> rest.prices \o <<p.value>>]

\* the iterator chain of lib.rs:52-69 over rows[i..], collected in order
RECURSIVE PriceRows(_, _, _)
PriceRows(rows, a, i) ==
    IF i > Len(rows) THEN [kind |-> "Ok", prices |-> <<>>]
    ELSE IF ~KeepRow(rows[i]) THEN PriceRows(rows, a, i + 1)
    ELSE LET p == PriceRow(rows[i], a)
         IN  IF p.kind = "Panic" THEN [kind |-> "Panic"]
             ELSE LET rest == PriceRows(rows, a, i + 1)
                  IN  IF rest.kind = "Panic" THEN rest
                      ELSE IF p.kind = "None" THEN rest
                      ELSE [kind |-> "Ok", prices |-> <<p.value>> \o rest.prices]

(***************************************************************************)
(* The inputs: the caller's arguments and what the server may answer.      *)
(***************************************************************************)
\* n as width digits, zero-padded
RECURSIVE Digits(_, _)
Digits(n, width) ==
    IF width = 0 THEN <<>>
    ELSE Digits(n \div 10, width - 1) \o <<DigitChars[(n % 10) + 1]>>

\* the server's rendering of a local time: YYYY-MM-DDTHH:MM:SS
IsoText(n) ==
    Digits(n.year, 4) \o <<"-">> \o Digits(n.month, 2) \o <<"-">>
        \o Digits(n.day, 2) \o <<"T">> \o Digits(n.hour, 2) \o <<":">>
        \o Digits(n.minute, 2) \o <<":">> \o Digits(n.second, 2)

\* the area of the test (lib.rs:110), and a second one for the lookup
Areas == {"SE3"}
LookupAreas == {"SE3", "SE4"}

\* the end_date of the test (lib.rs:110)
EndDates == {[year |-> 2022, month |-> 11, day |-> 9]}

WedAfternoon == Naive(2022, 11, 9, 14, 0, 0)
WedNoon      == Naive(2022, 11, 9, 12, 0, 0)
SpringGap    == Naive(2022, 3, 27, 2, 0, 0)     \* 02:00 does not exist
AutumnFold   == Naive(2022, 10, 30, 2, 0, 0)    \* 02:00 happens twice

WellFormedTimes == {IsoText(n) : n \in {WedAfternoon, WedNoon, SpringGap, AutumnFold}}

\* a StartTime without its seconds
NoSeconds == SubSeq(IsoText(WedAfternoon), 1, 16)

Positive  == <<"5", "2", "3", ",", "4", "5">>
Thousands == <<"1", " ", "2", "3", "4", ",", "5", "6">>
Negative  == <<"-", "1", "2", ",", "3", "4">>
Period    == <<"5", "2", "3", ".", "4", "5">>     \* no SEK amount: a period
Dash      == <<"-">>                              \* no number

Col(name, value) == [Name |-> name, Value |-> value]

OtherCaseOnly  == << Col("se3", Positive) >>
SecondColumn   == << Col("SE4", Thousands), Col("SE3", Positive) >>
NegativePrice  == << Col("SE3", Negative) >>
FirstUnparsed  == << Col("SE3", Period), Col("SE3", Positive) >>

ColumnLists == {OtherCaseOnly, SecondColumn, NegativePrice, FirstUnparsed}

\* the rows of the main specification: the hourly rows, rows marked
\* extra, rows whose StartTime is malformed, and rows or columns that
\* lack a key
HourRows ==
    [StartTime : WellFormedTimes, Columns : ColumnLists, IsExtraRow : {FALSE}]

ExtraRows ==
    [StartTime : {IsoText(WedAfternoon), IsoText(AutumnFold)},
     Columns : {SecondColumn, OtherCaseOnly}, IsExtraRow : {TRUE}]

MalformedRows ==
    [StartTime : {NoSeconds}, Columns : {OtherCaseOnly}, IsExtraRow : BOOLEAN]

PartialRows ==
    { [Columns |-> SecondColumn, IsExtraRow |-> FALSE],
      [StartTime |-> IsoText(WedNoon), IsExtraRow |-> FALSE],
      [StartTime |-> IsoText(WedNoon), Columns |-> SecondColumn],
      [StartTime |-> IsoText(WedNoon), Columns |-> << [Name |-> "SE3"] >>,
       IsExtraRow |-> FALSE] }

JsonRows == HourRows \cup ExtraRows \cup MalformedRows \cup PartialRows

\* the rows of the column-lookup specification: one hour, every list of
\* at most MaxCols columns
LookupColumns ==
    [Name : {"SE3", "se3", "SE4"}, Value : {Positive, Thousands, Negative, Period, Dash}]

SeqsUpTo(S, n) == UNION {[1..k -> S] : k \in 0..n}

LookupRows ==
    [StartTime : {IsoText(WedAfternoon)}, Columns : SeqsUpTo(LookupColumns, MaxCols),
     IsExtraRow : {FALSE}]

JsonBody(doc) == [json |-> TRUE, doc |-> doc]

\* the bodies over the rows of R: no JSON, a document without data, one
\* whose data has no Rows, and the well-shaped ones
Bodies(R, n) ==
    { [json |-> FALSE],
      JsonBody([message |-> "error"]),
      JsonBody([data |-> [Units |-> "SEK"]]) }
        \cup {JsonBody([data |-> [Rows |-> rows]]) : rows \in SeqsUpTo(R, n)}

Statuses == {200, 503}

Responses(R, n) == [status : Statuses, body : Bodies(R, n)]

(***************************************************************************)
(* get_prices (lib.rs:45-70), step by step.                                *)
(***************************************************************************)
NoValue == [kind |-> "None"]

Init ==
    /\ pc = "idle"
    /\ area = ""
    /\ url = NoValue
    /\ resp = NoValue
    /\ response = NoValue
    /\ result = NoValue
    /\ tp = NoValue

\* lib.rs:46-49: the URL with currency=SEK and endDate as %d-%m-%Y
RequestUrl(end_date) ==
    [kind     |-> "Url",
     base     |-> "https://www.nordpoolgroup.com/api/marketdata/page/10",
     currency |-> "SEK",
     endDate  |-> Digits(end_date.day, 2) \o <<"-">> \o Digits(end_date.month, 2)
                      \o <<"-">> \o Digits(end_date.year, 4)]

\* the caller calls get_prices(a, end_date); the request goes out
Call(a, end_date) ==
    /\ pc = "idle"
    /\ pc' = "awaiting"
    /\ area' = a
    /\ url' = RequestUrl(end_date)
    /\ UNCHANGED <<resp, response, result, tp>>

\* reqwest::get(url).await? fails (lib.rs:50): the error is returned
TransportError ==
    /\ pc = "awaiting"
    /\ pc' = "done"
    /\ result' = [kind |-> "Err", stage |-> "transport"]
    /\ UNCHANGED <<area, url, resp, response, tp>>

\* reqwest::get(url).await? yields a response of the set rs, whatever its
\* status: no error_for_status() is called
Receive(rs) ==
    /\ pc = "awaiting"
    /\ pc' = "received"
    /\ \E r \in rs :
           resp' = [kind |-> "Response", status |-> r.status, body |-> r.body]
    /\ UNCHANGED <<area, url, response, result, tp>>

\* .json::<Response>().await? (lib.rs:50)
DecodeBody ==
    /\ pc = "received"
    /\ LET d == DecodeResponse(resp.body)
       IN  IF d.ok
           THEN /\ pc' = "decoded"
                /\ response' = [kind |-> "Response", data |-> d.value.data]
                /\ UNCHANGED result
           ELSE /\ pc' = "done"
                /\ result' = [kind |-> "Err", stage |-> "decode"]
                /\ UNCHANGED response
    /\ UNCHANGED <<area, url, resp, tp>>

\* lib.rs:52-69: the rows are priced and the list is returned
Price ==
    /\ pc = "decoded"
    /\ pc' = "done"
    /\ result' = PriceRows(response.data.rows, area, 1)
    /\ UNCHANGED <<area, url, resp, response, tp>>

Next ==
    \/ \E a \in Areas, d \in EndDates : Call(a, d)
    \/ TransportError
    \/ Receive(Responses(JsonRows, MaxRows))
    \/ DecodeBody
    \/ Price

Spec == Init /\ [][Next]_vars

\* The column-lookup specification: get_prices on responses of one row
NextLookup ==
    \/ \E a \in LookupAreas, d \in EndDates : Call(a, d)
    \/ TransportError
    \/ Receive(Responses(LookupRows, 1))
    \/ DecodeBody
    \/ Price

SpecLookup == Init /\ [][NextLookup]_vars

(***************************************************************************)
(* TotalPrice::compute called directly (it is pub).                        *)
(***************************************************************************)
\* a week of November, the two days the clocks change, a summer day
ComputeDays ==
    {<<2022, 11, d>> : d \in 7..13} \cup {<<2022, 3, 27>>, <<2022, 10, 30>>, <<2022, 7, 1>>}

\* the zoned times of every hour of those days (a DateTime<Tz> is a
\* local time that exists once, with its offset)
ZonedTimes ==
    LET naives == {Naive(d[1], d[2], d[3], h, mi, 0) :
                       d \in ComputeDays, h \in 0..23, mi \in {0, 30}}
    IN  {[naive |-> n, offset |-> o] :
            <<n, o>> \in {x \in naives \X {1, 2} : x[2] \in and_local_timezone(x[1])}}

Energies == {Dec(52345, 5), Dec(0, 2), Dec(-1234, 5), Dec(3, 3)}

ComputeCall ==
    /\ pc = "idle"
    /\ tp = NoValue
    /\ \E z \in ZonedTimes, e \in Energies :
           tp' = [kind |-> "TotalPrice", value |-> compute(z, e)]
    /\ UNCHANGED <<pc, area, url, resp, response, result>>

NextCompute == ComputeCall

SpecCompute == Init /\ [][NextCompute]_vars

(***************************************************************************)
(* The claims.  They are stated over the decoded rows and the returned     *)
(* list, with the predicates below, which are written from the claims'     *)
(* words and not from PriceRow.                                            *)
(***************************************************************************)
Returned == pc = "done" /\ result.kind = "Ok"
Decoded  == response.kind = "Response"
Rows     == response.data.rows
Out      == result.prices

\* the columns of r named exactly like the requested area
AreaColumns(r) == {j \in 1..Len(r.columns) : r.columns[j].name = area}

FirstOf(S) == CHOOSE j \in S : \A k \in S : j <= k

Parses(value) == MoneyFromStr(value).kind = "Ok"
Amount(value) == MoneyFromStr(value).amount

\* the local time is in the gap of March or in the fold of October
InDstGap(r)  == and_local_timezone(r.start_time) = {}
InDstFold(r) == Cardinality(and_local_timezone(r.start_time)) = 2
OneInstant(r) == ~InDstGap(r) /\ ~InDstFold(r)

\* the priced hour p can be the pricing of the row r: its local time is
\* the row's, and its energy, per MWh, is the amount of a column of the
\* requested area
Matches(p, r) ==
    /\ p.start_time.naive = r.start_time
    /\ p.start_time.offset \in and_local_timezone(r.start_time)
    /\ \E j \in AreaColumns(r) :
          /\ Parses(r.columns[j].value)
          /\ DecEq(DecMul(p.energy, Dec(1000, 0)), Amount(r.columns[j].value))

\* the energy of p, per MWh, is the amount of r's first column of the area
EnergyOfFirstColumn(p, r) ==
    /\ p.start_time.naive = r.start_time
    /\ AreaColumns(r) # {}
    /\ Parses(r.columns[FirstOf(AreaColumns(r))].value)
    /\ DecEq(DecMul(p.energy, Dec(1000, 0)),
             Amount(r.columns[FirstOf(AreaColumns(r))].value))

\* out is, in order, the pricing of some of the rows whose index is in idx
Embeds(out, rows, idx) ==
    \E f \in [1..Len(out) -> idx] :
        /\ \A k, l \in 1..Len(out) : k < l => f[k] < f[l]
        /\ \A k \in 1..Len(out) : Matches(out[k], rows[f[k]])

\* the k-th smallest element of the set of indices S
Kth(S, k) == CHOOSE i \in S : Cardinality({j \in S : j < i}) = k - 1

\* -------------------------------------------------------------------------
\* C1, as stated: the returned list has exactly one priced hour for each
\* row that is not extra, has SOME column named like the area whose value
\* parses, and whose start time is a single instant.
QualifiesBySomeColumn(r) ==
    /\ ~r.is_extra_row
    /\ \E j \in AreaColumns(r) : Parses(r.columns[j].value)
    /\ OneInstant(r)

C1_OneHourPerRowWithSomeParsableColumn ==
    Returned =>
        Len(Out) = Cardinality({i \in 1..Len(Rows) : QualifiesBySomeColumn(Rows[i])})

\* C1, amended: the returned list has exactly one priced hour, in order,
\* for each row that is not extra, whose FIRST column named like the area
\* has a value that parses, and whose start time is a single instant, and
\* nothing else; so a response of n such rows yields n entries.
QualifiesByFirstColumn(r) ==
    /\ ~r.is_extra_row
    /\ AreaColumns(r) # {}
    /\ Parses(r.columns[FirstOf(AreaColumns(r))].value)
    /\ OneInstant(r)

QualifyingRows == {i \in 1..Len(Rows) : QualifiesByFirstColumn(Rows[i])}

C1_OneHourPerQualifyingRow ==
    Returned =>
        /\ Len(Out) = Cardinality(QualifyingRows)
        /\ \A k \in 1..Len(Out) : Matches(Out[k], Rows[Kth(QualifyingRows, k)])
        /\ (QualifyingRows = 1..Len(Rows) => Len(Out) = Len(Rows))

\* every row of a response of at least two rows qualifies and is priced
C1_Witness ==
    /\ Returned
    /\ Len(Rows) >= 2
    /\ QualifyingRows = 1..Len(Rows)
    /\ Len(Out) = Len(Rows)

\* -------------------------------------------------------------------------
\* C2: a row marked extra never produces an entry: the returned list is,
\* in order, the pricing of rows that are not marked extra.
C2_ExtraRowsNeverPriced ==
    Returned => Embeds(Out, Rows, {i \in 1..Len(Rows) : ~Rows[i].is_extra_row})

\* a row marked extra that would otherwise be priced, beside a priced row
C2_Witness ==
    /\ Returned
    /\ Len(Out) = 1
    /\ \E i \in 1..Len(Rows) :
          /\ Rows[i].is_extra_row
          /\ QualifiesByFirstColumn([Rows[i] EXCEPT !.is_extra_row = FALSE])

\* -------------------------------------------------------------------------
\* C3: a row that lacks the area column, whose value does not parse, or
\* whose start time is in a DST gap or fold does not fail the call: once
\* the body is decoded the call returns Ok, no such row is in the list and
\* every other row that is not extra is priced.
RowFails(r) ==
    \/ AreaColumns(r) = {}
    \/ ~Parses(r.columns[FirstOf(AreaColumns(r))].value)
    \/ InDstGap(r)
    \/ InDstFold(r)

WorkingDays == {"Mon", "Tue", "Wed", "Thu", "Fri"}

PeakTime(z) ==
    /\ Weekday(z.naive.year, z.naive.month, z.naive.day) \in WorkingDays
    /\ z.naive.hour \in 6..21

C4_FeeByWeekdayAndHour ==
    tp.kind = "TotalPrice" =>
        /\ DecEq(tp.value.fee, Dec(70, 2)) <=> PeakTime(tp.value.start_time)
        /\ ~PeakTime(tp.value.start_time) => DecEq(tp.value.fee, Dec(12, 2))

\* the last peak hour of a Friday
C4_Witness ==
    /\ tp.kind = "TotalPrice"
    /\ tp.value.start_time.naive = Naive(2022, 11, 11, 21, 30, 0)
    /\ DecEq(tp.value.fee, Dec(70, 2))

\* -------------------------------------------------------------------------
\* C5: a response with a non-2xx status is fatal: get_prices returns an
\* error, also when the body decodes.
C5_NonSuccessStatusIsAnError ==
    (pc = "done" /\ resp.kind = "Response" /\ resp.status \notin 200..299)
        => result.kind = "Err"

\* -------------------------------------------------------------------------
\* C6: a decode failure is fatal and all-or-nothing: when the body is no
\* JSON, lacks data, Rows or a key of a row or of a column, or holds a row
\* (extra or not, with the area or not) whose StartTime is not of the shape
\* YYYY-MM-DDTHH:MM:SS, the call returns an error and no list at all.
IsoShape(text) ==
    /\ Len(text) = 19
    /\ \A i \in 1..19 :
          IF i \in {5, 8} THEN text[i] = "-"
          ELSE IF i = 11 THEN text[i] = "T"
          ELSE IF i \in {14, 17} THEN text[i] = ":"
          ELSE IsDigit(text[i])

RowMalformed(r) ==
    \/ {"StartTime", "Columns", "IsExtraRow"} \ DOMAIN r # {}
    \/ ~IsoShape(r.StartTime)
    \/ \E j \in 1..Len(r.Columns) : {"Name", "Value"} \ DOMAIN r.Columns[j] # {}

BodyMalformed(body) ==
    \/ ~body.json
    \/ "data" \notin DOMAIN body.doc
    \/ "Rows" \notin DOMAIN body.doc.data
    \/ \E i \in 1..Len(body.doc.data.Rows) : RowMalformed(body.doc.data.Rows[i])

C7_OutputKeepsRowOrder ==
    Returned =>
        /\ Embeds(Out, Rows, 1..Len(Rows))
        /\ \A k, l \in 1..Len(Out) :
              k < l => \E i, j \in 1..Len(Rows) :
                          i < j /\ Matches(Out[k], Rows[i]) /\ Matches(Out[l], Rows[j])

\* two entries returned in the rows' order, the later hour first
C7_Witness ==
    /\ Returned
    /\ Len(Out) >= 2
    /\ Out[1].start_time.naive = WedAfternoon
    /\ Out[2].start_time.naive = WedNoon

\* -------------------------------------------------------------------------
\* C8, as stated: every returned priced hour has energy, vat, fee and tax
\* all non-negative, for every parsable value, a negative one included.
C8_AllComponentsNonNegative ==
    Returned =>
        \A k \in 1..Len(Out) :
            /\ DecSign(Out[k].energy) >= 0
            /\ DecSign(Out[k].vat) >= 0
            /\ DecSign(Out[k].fee) >= 0
            /\ DecSign(Out[k].tax) >= 0

\* C8, amended: fee and tax are positive for every priced hour; energy and
\* vat have the sign of the parsed amount, so they are non-negative exactly
\* when the wholesale price is, and negative for a negative price.
C8_FeeTaxPositiveEnergyVatSigned ==
    Returned =>
        \A k \in 1..Len(Out) :
            /\ DecSign(Out[k].fee) = 1
            /\ DecSign(Out[k].tax) = 1
            /\ DecSign(Out[k].vat) = DecSign(Out[k].energy)
            /\ \E i \in 1..Len(Rows) :
                  /\ EnergyOfFirstColumn(Out[k], Rows[i])
                  /\ DecSign(Out[k].energy) =
                         DecSign(Amount(Rows[i].columns[FirstOf(AreaColumns(Rows[i]))].value))

\* a priced hour of a negative wholesale price
C8_Witness ==
    /\ Returned
    /\ \E k \in 1..Len(Out) :
          DecSign(Out[k].energy) = -1 /\ DecSign(Out[k].vat) = -1

\* -------------------------------------------------------------------------
Quarter(d) == Dec(d.mant * 25, d.scale + 2)

\* C9, as stated: vat is 25% of energy rounded to the minor unit (two
\* decimals), under one of the usual rounding rules.
C9_VatIsRoundedQuarter ==
    Returned =>
        \A k \in 1..Len(Out) :
            \E halfEven \in BOOLEAN :
                DecEq(Out[k].vat, RoundToMinor(Quarter(Out[k].energy), halfEven))

\* C9, amended: vat is exactly 25% of energy, not rounded, where energy is
\* the parsed per-MWh amount divided by 1000 at full precision.
C9_VatIsExactQuarter ==
    Returned =>
        \A k \in 1..Len(Out) :
            /\ DecEq(DecMul(Out[k].vat, Dec(4, 0)), Out[k].energy)
            /\ \E i \in 1..Len(Rows) : EnergyOfFirstColumn(Out[k], Rows[i])

\* 523,45 per MWh: energy 0.52345, vat 0.1308625, which two decimals lose
C9_Witness ==
    /\ Returned
    /\ \E k \in 1..Len(Out) :
          /\ DecEq(Out[k].energy, Dec(52345, 5))
          /\ DecEq(Out[k].vat, Dec(1308625, 7))

\* -------------------------------------------------------------------------
\* C10: of several columns named like the area only the first is used: if
\* its value does not parse the row is dropped, whatever a later column of
\* that name holds, and a column whose name differs in letter case only is
\* never used.  Stated on the responses of one row.
C10_FirstColumnOfTheAreaDecides ==
    (Returned /\ Len(Rows) = 1) =>
        LET r == Rows[1]
            S == AreaColumns(r)
        IN  IF S = {} THEN Out = <<>>
            ELSE IF ~Parses(r.columns[FirstOf(S)].value) THEN Out = <<>>
            ELSE /\ Len(Out) = 1
                 /\ DecEq(DecMul(Out[1].energy, Dec(1000, 0)),
                          Amount(r.columns[FirstOf(S)].value))

\* the first SE3 does not parse, a later SE3 and an se3 do: no entry
C10_Witness ==
    /\ Returned
    /\ Len(Rows) = 1
    /\ Out = <<>>
    /\ LET r == Rows[1]
       IN  /\ Len(r.columns) = 2
           /\ r.columns[1].name = area /\ ~Parses(r.columns[1].value)
           /\ r.columns[2].name = area /\ Parses(r.columns[2].value)

=============================================================================
